---- MODULE Spec2Model ----
(***************************************************************************)
(* Model of the bhmills_bookings worker: BookingUser (time parsing,        *)
(* candidate generation, availability matching) and BookingSystem (the     *)
(* authentication loop and the daily run() cycle).                         *)
(*                                                                         *)
(* Representation                                                          *)
(*   - a time-of-day string "H:MM xx" is the record [h, m, ap]; ap keeps   *)
(*     its letter case, so "9:00 AM" and "9:00 am" are different strings;  *)
(*   - a calendar date "%Y-%m-%d" is a day number; day d falls on weekday  *)
(*     d % 7 (day 0 is a Sunday);                                          *)
(*   - a timedelta / an instant is a number of minutes.                    *)
(***************************************************************************)
EXTENDS Integers, Sequences, FiniteSets, TLC

VARIABLES
    hour_minutes,     \* SpecParse: the argument of _parse_hour
    parsed,           \* SpecParse: its result, NoValue before the call
    user_preferences, \* SpecGen: BookingUser.user_preferences, class type -> list
    upcoming,         \* SpecGen: the remote answer to api/users/<class>/upcoming
    now,              \* SpecGen: datetime.now() when generate_candidates starts
    elapsed,          \* SpecGen: minutes between the two now() reads of a call
    candidates,       \* SpecGen: the value generate_candidates returned
    gen_pc,           \* SpecGen: "start", "done" or "HTTPError"
    inventory,        \* SpecMatch: the remote answer to api/class/gym/<id>/<class>
    classes_to_schedule,    \* SpecMatch: the dict get_classes_to_schedule returned
    not_available_classes,  \* SpecMatch: the dict get_not_available_classes returned
    match_pc,         \* SpecMatch: "start", "matched", "done", "KeyError", "HTTPError"
    pc,               \* Spec: the statement of BookingSystem.run being executed
    clock,            \* Spec: the wall clock, minutes since day 0, 00:00
    booking_users,    \* Spec: BookingSystem.booking_users
    auth_users,       \* Spec: the count the last _auth_users round returned
    auth_ret,         \* Spec: the statement enforce_auth returns to
    auth_attempts,    \* Spec: _auth_users rounds of the current enforce_auth call
    auth_sleeps,      \* Spec: time.sleep(1800) calls of the current enforce_auth call
    auth_entry,       \* Spec: the clock when the current enforce_auth call began
    target_last_date, \* Spec: run's target_last_date
    user_candidates,  \* Spec: user -> BookingUser.candidates
    start,            \* Spec: search_target_date's start
    secs,             \* Spec: search_target_date's secs
    poll_errors,      \* Spec: HTTP error answers to the polls of this search
    polls,            \* Spec: polls of this search that did not see the target
    remote_last,      \* Spec: class type -> furthest date of the remote inventory
    booked,           \* Spec: the book_class calls of this cycle, <<user, class id>>
    unmatched,        \* Spec: <<user, class type, candidate>> left without a slot
    error             \* Spec: the exception that left run(), or "none"

parseVars == <<hour_minutes, parsed>>
genVars   == <<user_preferences, upcoming, now, elapsed, candidates, gen_pc>>
matchVars == <<inventory, classes_to_schedule, not_available_classes, match_pc>>
runVars   == <<pc, clock, booking_users, auth_users, auth_ret, auth_attempts,
               auth_sleeps, auth_entry, target_last_date, user_candidates, start, secs,
               poll_errors, polls, remote_last, booked, unmatched, error>>
vars      == <<parseVars, genVars, matchVars, runVars>>

\* "not computed yet": no timedelta the code builds is negative.
NoValue == -1

\* ------------------------------------------------------------------------
\* Strings
\* ------------------------------------------------------------------------

\* str.lower() restricted to the am/pm suffix (digits, ':' and ' ' are
\* unchanged by lower()).
LowerAp(ap) ==
    CASE ap = "AM" -> "am"
      [] ap = "PM" -> "pm"
      [] ap = "Am" -> "am"
      [] ap = "Pm" -> "pm"
      [] OTHER -> ap

\* str.lower() of a whole time-of-day string.
Lower(t) == [t EXCEPT !.ap = LowerAp(t.ap)]

TimeStr(h, m, ap) == [h |-> h, m |-> m, ap |-> ap]

\* ------------------------------------------------------------------------
\* BookingUser._parse_hour
\* ------------------------------------------------------------------------

\* hour_int, minutes_int = the two fields of the clock part; 'pm' (after
\* lower()) adds 12 to the hour, whatever the hour is; the result is
\* timedelta(hours=hour_int, minutes=minutes_int), in minutes.
_parse_hour(t) ==
    LET hour_int    == t.h
        minutes_int == t.m
        time_of_day == LowerAp(t.ap)
        shifted     == IF time_of_day = "pm" THEN hour_int + 12 ELSE hour_int
    IN  60 * shifted + minutes_int

\* ------------------------------------------------------------------------
\* Dates
\* ------------------------------------------------------------------------

MinutesPerDay == 1440

\* strftime("%A") of a day number (day 0 is a Sunday).
WeekdayNames ==
    <<"Sunday", "Monday", "Tuesday", "Wednesday", "Thursday", "Friday", "Saturday">>

Weekday(d) == WeekdayNames[(d % 7) + 1]

\* A remote datetime string ("2021-03-01T00:00:00.000Z") is [day, minute];
\* parser.parse(x).strftime("%Y-%m-%d") keeps the day and drops the clock.
RemoteDate(d, m) == [day |-> d, minute |-> m]

DateStr(dt) == dt.day

\* datetime -> "%Y-%m-%d" for an instant in minutes.
DayOf(instant) == instant \div MinutesPerDay

\* ------------------------------------------------------------------------
\* BookingUser.get_scheduled_classes
\* ------------------------------------------------------------------------

\* BookingUser.classes
ClassTypes == {"swimmingClass", "gymClass", "tennisClass"}

\* requests.Response.raise_for_status
RaisesForStatus(status_code) == status_code >= 400

\* One entry of the normalised list: booking id, class id, (date, weekday),
\* time string as the remote sent it.
ScheduledEntry(booked_class) ==
    [ booking_id |-> booked_class._id,
      class_id   |-> booked_class.class._id,
      classDate  |-> << DateStr(booked_class.class.classDate),
                        Weekday(DateStr(booked_class.class.classDate)) >>,
      classTime  |-> booked_class.class.classTime ]

RECURSIVE ActiveEntries(_)
ActiveEntries(json) ==
    IF json = <<>> THEN <<>>
    ELSE (IF Head(json).status = "active"
          THEN << ScheduledEntry(Head(json)) >> ELSE <<>>)
         \o ActiveEntries(Tail(json))

\* TRUE when one of the per-class requests raises HTTPError.
ScheduledClassesRaises(resp) ==
    \E class_type \in ClassTypes : RaisesForStatus(resp[class_type].status_code)

get_scheduled_classes(resp) ==
    [ class_type \in ClassTypes |-> ActiveEntries(resp[class_type].json) ]

\* ------------------------------------------------------------------------
\* BookingUser._generate_candidate_days
\* ------------------------------------------------------------------------

\* Horizon of generate_candidates.
ndays == 8

\* Mutation of HorizonDates: range(1, n + 1) instead of range(n).
HorizonDates_FromTomorrow(t, n) == [ i \in 1..n |-> DayOf(t + i * MinutesPerDay) ]

\* The dates day(now) + i, i in range(n), in that order.
HorizonDates(t, n) == [ i \in 1..n |-> DayOf(t + (i - 1) * MinutesPerDay) ]

\* dict weekday -> [dates], each list in increasing date order.
_generate_candidate_days(t, n) ==
    LET dates == HorizonDates(t, n)
        keys  == { Weekday(dates[i]) : i \in 1..n }
    IN  [ w \in keys |-> SelectSeq(dates, LAMBDA d : Weekday(d) = w) ]

\* ------------------------------------------------------------------------
\* BookingUser._filter_days_to_schedule
\* ------------------------------------------------------------------------

Candidate(date, weekday, hour, friends) ==
    [ date |-> date, weekday |-> weekday, hour |-> hour, friends |-> friends ]

\* [(class_date, day_p[0], hour, day_p[2]) for hour in hours for class_date in dates]
CandidatesOfPreference(day_p, class_dates) ==
    LET class_hours == day_p.hours
        nd == Len(class_dates)
    IN  [ k \in 1..(Len(class_hours) * nd) |->
            Candidate(class_dates[((k - 1) % nd) + 1], day_p.weekday,
                      class_hours[((k - 1) \div nd) + 1], day_p.friends) ]

RECURSIVE RawCandidates(_, _)
RawCandidates(preferences, candidate_days) ==
    IF preferences = <<>> THEN <<>>
    ELSE LET day_p == Head(preferences)
         IN  (IF day_p.weekday \in DOMAIN candidate_days
              THEN CandidatesOfPreference(day_p, candidate_days[day_p.weekday])
              ELSE <<>>)
             \o RawCandidates(Tail(preferences), candidate_days)

\* {(day["classDate"][0], day["classTime"].lower()) for day in scheduled}
ScheduledDays(scheduled) ==
    { << scheduled[i].classDate[1], Lower(scheduled[i].classTime) >> :
        i \in 1..Len(scheduled) }

\* Mutation of KeepsCandidate: now <= preference_datetime.
KeepsCandidate_NotBefore(candidate, t, scheduled_days) ==
    LET preference_datetime ==
            candidate.date * MinutesPerDay + _parse_hour(candidate.hour)
    IN  /\ t <= preference_datetime
        /\ << candidate.date, candidate.hour >> \notin scheduled_days

\* now < preference_datetime and (candidate_date, candidate_hour) not in scheduled_days
KeepsCandidate(candidate, t, scheduled_days) ==
    LET preference_datetime ==
            candidate.date * MinutesPerDay + _parse_hour(candidate.hour)
    IN  /\ t < preference_datetime
        /\ << candidate.date, candidate.hour >> \notin scheduled_days

_filter_days_to_schedule(prefs, candidate_days, scheduled_classes, t) ==
    [ preference_class \in DOMAIN prefs |->
        SelectSeq(RawCandidates(prefs[preference_class], candidate_days),
                  LAMBDA c : KeepsCandidate(c, t,
                                 ScheduledDays(scheduled_classes[preference_class]))) ]

\* ------------------------------------------------------------------------
\* BookingUser.generate_candidates
\* ------------------------------------------------------------------------

\* t1 is the now() read by _generate_candidate_days, t2 the later now() read
\* by _filter_days_to_schedule; class types left without candidates are
\* removed from the returned dict.
generate_candidates(prefs, resp, t1, t2) ==
    LET candidate_days    == _generate_candidate_days(t1, ndays)
        scheduled_classes == get_scheduled_classes(resp)
        filtered == _filter_days_to_schedule(prefs, candidate_days,
                                             scheduled_classes, t2)
        kept     == { class_type \in DOMAIN filtered : Len(filtered[class_type]) > 0 }
    IN  [ class_type \in kept |-> filtered[class_type] ]

\* ------------------------------------------------------------------------
\* BookingUser.get_classes_to_schedule
\* ------------------------------------------------------------------------

\* A slot of the remote inventory (one element of b["classes"]).
RealClass(id, day, classTime, limit, joinedUsers, active, attendanceList) ==
    [ _id |-> id, classDate |-> RemoteDate(day, 0), classTime |-> classTime,
      limit |-> limit, joinedUsers |-> joinedUsers, active |-> active,
      attendanceList |-> attendanceList ]

\* One element of the inventory: b["_id"] encodes the date.
DayGroup(day, classes) == [ _id |-> RemoteDate(day, 0), classes |-> classes ]

\* days_to_filter = [d[0] for d in candidates_class]
DaysToFilter(candidates_class) ==
    { candidates_class[i].date : i \in 1..Len(candidates_class) }

\* The keys of filtered_bookings: the inventory dates some candidate asks for.
FilteredDates(bookings, days_to_filter) ==
    { DateStr(bookings[i]._id) : i \in 1..Len(bookings) } \cap days_to_filter

\* filtered_bookings[d]: the last group of the inventory with date d.
FilteredBooking(bookings, d) ==
    bookings[ CHOOSE i \in 1..Len(bookings) :
                /\ DateStr(bookings[i]._id) = d
                /\ \A j \in (i + 1)..Len(bookings) : DateStr(bookings[j]._id) # d ]

\* Mutation of RequiredSpots: the user's own place is not counted.
RequiredSpots_CompanionsOnly(candidate) == Len(candidate.friends)

\* required_spots = 1 + len(candidate[3])
RequiredSpots(candidate) == 1 + Len(candidate.friends)

\* real_class_time == candidate_time and available_spots >= required_spots
\* and real_class["active"]
SlotQualifies(real_class, candidate) ==
    LET available_spots == real_class.limit - real_class.joinedUsers
        real_class_time == _parse_hour(real_class.classTime)
        candidate_time  == _parse_hour(candidate.hour)
    IN  /\ real_class_time = candidate_time
        /\ available_spots >= RequiredSpots(candidate)
        /\ real_class.active

\* real_class["classDate"] = parser.parse(real_class["classDate"]).strftime(...)
NormalisedClass(real_class) == [ real_class EXCEPT !.classDate = DateStr(@) ]

\* The slots one candidate appends, in inventory order (the scan has no break).
SlotsOfCandidate(candidate, classes) ==
    LET hits == SelectSeq(classes, LAMBDA real_class : SlotQualifies(real_class, candidate))
    IN  [ i \in 1..Len(hits) |-> NormalisedClass(hits[i]) ]

RECURSIVE ClassesToSchedule(_, _)
ClassesToSchedule(candidates_class, bookings) ==
    IF candidates_class = <<>> THEN <<>>
    ELSE SlotsOfCandidate(Head(candidates_class),
                          FilteredBooking(bookings, Head(candidates_class).date).classes)
         \o ClassesToSchedule(Tail(candidates_class), bookings)

\* filtered_bookings[day] raises KeyError for a candidate whose date has no group.
RaisesKeyError(candidates_class, bookings) ==
    LET keys == FilteredDates(bookings, DaysToFilter(candidates_class))
    IN  \E i \in 1..Len(candidates_class) : candidates_class[i].date \notin keys

\* The exception that ends the call, or "none".  Class types are visited in
\* dict order; for each one the HTTP status is checked before any lookup.
ClassOrder == <<"swimmingClass", "gymClass", "tennisClass">>

RECURSIVE MatchException(_, _, _)
MatchException(cands, resp, k) ==
    IF k > Len(ClassOrder) THEN "none"
    ELSE LET class_type == ClassOrder[k]
         IN  IF class_type \notin DOMAIN cands
             THEN MatchException(cands, resp, k + 1)
             ELSE IF RaisesForStatus(resp[class_type].status_code) THEN "HTTPError"
             ELSE IF RaisesKeyError(cands[class_type], resp[class_type].json) THEN "KeyError"
             ELSE MatchException(cands, resp, k + 1)

\* The returned dict: class types with at least one slot to schedule.
get_classes_to_schedule(cands, resp) ==
    LET per_class == [ class_type \in DOMAIN cands |->
                         ClassesToSchedule(cands[class_type], resp[class_type].json) ]
        kept == { class_type \in DOMAIN cands : Len(per_class[class_type]) > 0 }
    IN  [ class_type \in kept |-> per_class[class_type] ]

\* ------------------------------------------------------------------------
\* BookingUser.get_not_available_classes
\* ------------------------------------------------------------------------

\* available_dates[class_type]: the classDate of every slot to schedule.
AvailableDates(classes_data) ==
    { classes_data[i].classDate : i \in 1..Len(classes_data) }

get_not_available_classes(cands, to_schedule) ==
    LET classes_not_in(class_type) ==
            SelectSeq(cands[class_type],
                      LAMBDA class_tuple :
                          class_tuple.date \notin AvailableDates(to_schedule[class_type]))
        kept == { class_type \in DOMAIN cands :
                    /\ Len(cands[class_type]) > 0
                    /\ \/ class_type \notin DOMAIN to_schedule
                       \/ Len(classes_not_in(class_type)) > 0 }
    IN  [ class_type \in kept |->
            IF class_type \in DOMAIN to_schedule
            THEN classes_not_in(class_type)
            ELSE cands[class_type] ]

\* ------------------------------------------------------------------------
\* SpecParse: _parse_hour applied to every 'H:MM am|pm' string
\* ------------------------------------------------------------------------

ParseInputs ==
    { TimeStr(h, m, ap) : h \in 1..12, m \in 0..59, ap \in {"am", "pm", "AM", "PM"} }

ParseIdle ==
    /\ hour_minutes = TimeStr(1, 0, "am")
    /\ parsed = NoValue

GenIdle ==
    /\ user_preferences = <<>>
    /\ upcoming = <<>>
    /\ now = 0
    /\ elapsed = 0
    /\ candidates = <<>>
    /\ gen_pc = "idle"

MatchIdle ==
    /\ inventory = <<>>
    /\ classes_to_schedule = <<>>
    /\ not_available_classes = <<>>
    /\ match_pc = "idle"

RunIdle ==
    /\ pc = "idle"
    /\ clock = 0
    /\ booking_users = <<>>
    /\ auth_users = 0
    /\ auth_ret = "idle"
    /\ auth_attempts = 0
    /\ auth_sleeps = 0
    /\ auth_entry = 0
    /\ target_last_date = 0
    /\ user_candidates = <<>>
    /\ start = 0
    /\ secs = 0
    /\ poll_errors = 0
    /\ polls = 0
    /\ remote_last = <<>>
    /\ booked = <<>>
    /\ unmatched = {}
    /\ error = "none"

InitParse ==
    /\ hour_minutes \in ParseInputs
    /\ parsed = NoValue
    /\ GenIdle
    /\ MatchIdle
    /\ RunIdle

ParseHour ==
    /\ parsed = NoValue
    /\ parsed' = _parse_hour(hour_minutes)
    /\ UNCHANGED <<hour_minutes, genVars, matchVars, runVars>>

NextParse == ParseHour

SpecParse == InitParse /\ [][NextParse]_vars

\* The 12-hour-clock offset since midnight of a time-of-day string, as the
\* specification states it.
ClockOffset12h(t) ==
    LET pm == LowerAp(t.ap) = "pm"
    IN  CASE t.h = 12 /\ ~pm -> t.m
          [] t.h < 12 /\ ~pm -> 60 * t.h + t.m
          [] t.h = 12 /\ pm  -> 720 + t.m
          [] OTHER           -> 60 * (t.h + 12) + t.m

\* C1: for every 'H:MM am|pm' with H in 1..12 and MM in 0..59, _parse_hour
\* returns the 12-hour-clock offset since midnight ('12:MM am' -> MM,
\* '12:MM pm' -> 720+MM), and the result is below 1440 minutes.
C1_ParseHourIsClockOffset ==
    parsed # NoValue =>
        /\ parsed = ClockOffset12h(hour_minutes)
        /\ parsed < 1440

\* ------------------------------------------------------------------------
\* SpecGen: generate_candidates on bounded preferences, reservations, clocks
\* ------------------------------------------------------------------------

MaxPrefs == 2      \* longest preference list of a class type
MaxUpcoming == 1   \* longest list of reservations the remote returns

T9am    == TimeStr(9, 0, "am")
T9AM    == TimeStr(9, 0, "AM")
T1230pm == TimeStr(12, 30, "pm")

DayPref(weekday, hours, friends) ==
    [ weekday |-> weekday, hours |-> hours, friends |-> friends ]

DayPrefs ==
    { DayPref(w, hs, <<>>) :
        w \in {"Monday", "Thursday"},
        hs \in { <<>>, <<T9am>>, <<T9AM, T1230pm>> } }
    \cup { DayPref("Monday", <<T9am>>, <<"ann", "bob">>) }

SeqsUpTo(S, n) == UNION { [1..k -> S] : k \in 0..n }

PreferenceDicts ==
    { [ class_type \in {"gymClass"} |-> ps ] : ps \in SeqsUpTo(DayPrefs, MaxPrefs) }
    \cup
    { [ class_type \in {"gymClass", "tennisClass"} |->
          IF class_type = "gymClass" THEN ps
          ELSE << DayPref("Thursday", <<T9am>>, <<>>) >> ] :
        ps \in SeqsUpTo(DayPrefs, MaxPrefs) }

BookedClass(id, status, day, classTime) ==
    [ _id |-> id, status |-> status,
      class |-> [ _id |-> id, classDate |-> RemoteDate(day, 0),
                  classTime |-> classTime ] ]

UpcomingPool ==
    { BookedClass("b1", "active", 1, T9am),
      BookedClass("b2", "active", 8, T9am),
      BookedClass("b3", "active", 8, T9AM),
      BookedClass("b4", "cancelled", 8, T9am) }

UpcomingResponse(code, gym_json) ==
    [ class_type \in ClassTypes |->
        [ status_code |-> IF class_type = "gymClass" THEN code ELSE 200,
          json |-> IF class_type = "gymClass" THEN gym_json ELSE <<>> ] ]

UpcomingResponses ==
    { UpcomingResponse(200, js) : js \in SeqsUpTo(UpcomingPool, MaxUpcoming) }
    \cup { UpcomingResponse(500, <<>>) }

\* Every weekday as "today", early, at 9:00, mid-morning and the last minute
\* of the day.
GenClocks == { d * MinutesPerDay + m : d \in 0..6, m \in {30, 540, 600, 1439} }

InitGen ==
    /\ ParseIdle
    /\ user_preferences \in PreferenceDicts
    /\ upcoming \in UpcomingResponses
    /\ now \in GenClocks
    /\ elapsed \in {0, 1}
    /\ candidates = <<>>
    /\ gen_pc = "start"
    /\ MatchIdle
    /\ RunIdle

\* generate_candidates returns its dict.
GenerateCandidates ==
    /\ gen_pc = "start"
    /\ ~ScheduledClassesRaises(upcoming)
    /\ candidates' = generate_candidates(user_preferences, upcoming, now, now + elapsed)
    /\ gen_pc' = "done"
    /\ UNCHANGED <<user_preferences, upcoming, now, elapsed, parseVars, matchVars, runVars>>

\* r.raise_for_status() in get_scheduled_classes raises out of the call.
GenerateCandidatesFails ==
    /\ gen_pc = "start"
    /\ ScheduledClassesRaises(upcoming)
    /\ gen_pc' = "HTTPError"
    /\ UNCHANGED <<user_preferences, upcoming, now, elapsed, candidates, parseVars, matchVars, runVars>>

NextGen == GenerateCandidates \/ GenerateCandidatesFails

SpecGen == InitGen /\ [][NextGen]_vars

\* The generated candidates of all class types (empty before the call).
GeneratedCandidates ==
    UNION { { candidates[class_type][i] : i \in 1..Len(candidates[class_type]) } :
              class_type \in DOMAIN candidates }

\* C2: no generated candidate has the (date, time-of-day) of a scheduled
\* class of its class type, the two time strings compared case-insensitively.
C2_NoScheduledCandidate ==
    gen_pc = "done" =>
        \A class_type \in DOMAIN candidates :
          \A i \in 1..Len(candidates[class_type]) :
            \A j \in 1..Len(upcoming[class_type].json) :
              LET c == candidates[class_type][i]
                  b == upcoming[class_type].json[j]
              IN  b.status = "active" =>
                    ~ ( /\ c.date = DateStr(b.class.classDate)
                        /\ Lower(c.hour) = Lower(b.class.classTime) )

\* The preference of the scenario: Monday, "9:00 am", no companions.
MondayNineOnly == [ class_type \in {"gymClass"} |-> << DayPref("Monday", <<T9am>>, <<>>) >> ]

NothingScheduled ==
    \A class_type \in ClassTypes :
        \A j \in 1..Len(upcoming[class_type].json) :
            upcoming[class_type].json[j].status # "active"

\* C3: every generated candidate's date falls on its preference's weekday
\* and lies in [today, today+ndays-1]; a weekday other than today's
\* contributes one date only; a lone 'Monday 9:00 am' preference with nothing
\* scheduled and 'now' on a Sunday yields exactly one candidate, dated the
\* following Monday at '9:00 am'.
C3_CandidateDatesInHorizon ==
    gen_pc = "done" =>
        LET today == DayOf(now)
        IN  /\ \A c \in GeneratedCandidates :
                  /\ Weekday(c.date) = c.weekday
                  /\ c.date \in today..(today + ndays - 1)
            /\ \A c1, c2 \in GeneratedCandidates :
                  (c1.weekday = c2.weekday /\ c1.weekday # Weekday(today))
                      => c1.date = c2.date
            /\ ( /\ user_preferences = MondayNineOnly
                 /\ NothingScheduled
                 /\ Weekday(today) = "Sunday" )
               => candidates = [ class_type \in {"gymClass"} |->
                                   << Candidate(today + 1, "Monday", T9am, <<>>) >> ]

\* The scenario has run: on a Sunday, the lone Monday preference produced a
\* candidate.
C3_Witness ==
    /\ gen_pc = "done"
    /\ user_preferences = MondayNineOnly
    /\ NothingScheduled
    /\ Weekday(DayOf(now)) = "Sunday"
    /\ DOMAIN candidates = {"gymClass"}
    /\ Len(candidates["gymClass"]) = 1

\* ------------------------------------------------------------------------
\* SpecMatch: get_classes_to_schedule, then get_not_available_classes, on
\* bounded candidate lists and inventories
\* ------------------------------------------------------------------------

MaxCandidates == 2   \* longest candidate list of a class type
MaxSlots == 2        \* most slots in one day group of the inventory

T10am == TimeStr(10, 0, "am")

\* BookingUser.user_id of the user whose candidates are matched.
UserId == "u1"

Attendance(user, status) == [ user |-> user, status |-> status ]

\* Monday of next week (day 8) and the Tuesday after it (day 9).
MatchCandidatePool ==
    { Candidate(8, "Monday", T9am, <<>>),
      Candidate(8, "Monday", T9AM, <<>>),
      Candidate(8, "Monday", T10am, <<>>),
      Candidate(8, "Monday", T9am, <<"ann", "bob">>),
      Candidate(9, "Tuesday", T9am, <<>>) }

MatchCandidateLists == SeqsUpTo(MatchCandidatePool, MaxCandidates) \ { <<>> }

TennisCandidates == << Candidate(8, "Monday", T9am, <<>>) >>

MatchCandidateDicts ==
    { [ class_type \in {"gymClass"} |-> cs ] : cs \in MatchCandidateLists }
    \cup
    { [ class_type \in {"gymClass", "tennisClass"} |->
          IF class_type = "gymClass" THEN cs ELSE TennisCandidates ] :
        cs \in MatchCandidateLists }

SlotPool ==
    { RealClass("s1", 8, T9am, 10, 9, TRUE, <<>>),
      RealClass("s2", 8, T9am, 10, 10, TRUE, <<>>),
      RealClass("s3", 8, T9am, 10, 8, TRUE, <<>>),
      RealClass("s4", 8, T9am, 10, 5, FALSE, <<>>),
      RealClass("s5", 8, T9am, 10, 5, TRUE, << Attendance(UserId, "cancelled") >>),
      RealClass("s6", 8, T10am, 10, 5, TRUE, << Attendance(UserId, "active") >>),
      RealClass("s7", 8, T9AM, 10, 5, TRUE, << Attendance("u2", "cancelled") >>) }

TuesdayGroup == DayGroup(9, << RealClass("s9", 9, T9am, 10, 0, TRUE, <<>>) >>)

TennisInventory == << DayGroup(8, << RealClass("t1", 8, T9am, 4, 0, TRUE, <<>>) >>) >>

InventoryResponse(code, gym_json) ==
    [ class_type \in ClassTypes |->
        [ status_code |-> IF class_type = "gymClass" THEN code ELSE 200,
          json |-> IF class_type = "gymClass" THEN gym_json
                   ELSE IF class_type = "tennisClass" THEN TennisInventory
                   ELSE <<>> ] ]

InventoryResponses ==
    { InventoryResponse(200, << DayGroup(8, slots) >>) :
        slots \in SeqsUpTo(SlotPool, MaxSlots) }
    \cup
    { InventoryResponse(200, << DayGroup(8, slots), TuesdayGroup >>) :
        slots \in SeqsUpTo(SlotPool, MaxSlots) }
    \cup { InventoryResponse(500, <<>>) }

InitMatch ==
    /\ ParseIdle
    /\ user_preferences = <<>>
    /\ upcoming = <<>>
    /\ now = 0
    /\ elapsed = 0
    /\ gen_pc = "idle"
    /\ candidates \in MatchCandidateDicts
    /\ inventory \in InventoryResponses
    /\ classes_to_schedule = <<>>
    /\ not_available_classes = <<>>
    /\ match_pc = "start"
    /\ RunIdle

\* get_classes_to_schedule returns its dict.
GetClassesToSchedule ==
    /\ match_pc = "start"
    /\ MatchException(candidates, inventory, 1) = "none"
    /\ classes_to_schedule' = get_classes_to_schedule(candidates, inventory)
    /\ match_pc' = "matched"
    /\ UNCHANGED <<inventory, not_available_classes, parseVars, genVars, runVars>>

\* get_classes_to_schedule raises (HTTPError from raise_for_status, KeyError
\* from filtered_bookings[day]); nothing is returned.
GetClassesToScheduleRaises ==
    /\ match_pc = "start"
    /\ MatchException(candidates, inventory, 1) # "none"
    /\ match_pc' = MatchException(candidates, inventory, 1)
    /\ UNCHANGED <<inventory, classes_to_schedule, not_available_classes,
                   parseVars, genVars, runVars>>

\* get_not_available_classes(candidates, classes_to_schedule)
GetNotAvailableClasses ==
    /\ match_pc = "matched"
    /\ not_available_classes' = get_not_available_classes(candidates, classes_to_schedule)
    /\ match_pc' = "done"
    /\ UNCHANGED <<inventory, classes_to_schedule, parseVars, genVars, runVars>>

NextMatch == GetClassesToSchedule \/ GetClassesToScheduleRaises \/ GetNotAvailableClasses

SpecMatch == InitMatch /\ [][NextMatch]_vars

\* The slots of a class type in the inventory, whatever their day group.
InventorySlots(class_type) ==
    UNION { { inventory[class_type].json[g].classes[i] :
                i \in 1..Len(inventory[class_type].json[g].classes) } :
            g \in 1..Len(inventory[class_type].json) }

\* The slots returned for a class type (empty when the dict has no such key).
ReturnedSlots(class_type) ==
    IF class_type \in DOMAIN classes_to_schedule
    THEN { classes_to_schedule[class_type][i] :
             i \in 1..Len(classes_to_schedule[class_type]) }
    ELSE {}

CandidatesOf(class_type) ==
    { candidates[class_type][i] : i \in 1..Len(candidates[class_type]) }

MatchReturned == match_pc \in {"matched", "done"}

\* C4: every slot the matcher returns is active and has, for a candidate of
\* its date and parsed time, limit - joinedUsers >= 1 + companion count; a
\* full slot (limit = joinedUsers) is never returned, and a candidate with 2
\* companions never brings in a slot with exactly 2 free places.
C4_MatchHasCapacityAndIsActive ==
    MatchReturned =>
        \A class_type \in DOMAIN candidates :
          \A slot \in ReturnedSlots(class_type) :
            /\ slot.active
            /\ slot.limit - slot.joinedUsers >= 1
            /\ \E c \in CandidatesOf(class_type) :
                  /\ c.date = slot.classDate
                  /\ _parse_hour(c.hour) = _parse_hour(slot.classTime)
                  /\ slot.limit - slot.joinedUsers >= 1 + Len(c.friends)

\* A call returned where a candidate with two companions met a slot of its
\* date and time with exactly two free places, and a full slot was on offer.
C4_Witness ==
    /\ MatchReturned
    /\ candidates["gymClass"] = << Candidate(8, "Monday", T9am, <<"ann", "bob">>) >>
    /\ \E slot \in InventorySlots("gymClass") :
          slot.active /\ slot.limit - slot.joinedUsers = 2
    /\ \E slot \in InventorySlots("gymClass") :
          slot.active /\ slot.limit = slot.joinedUsers
    /\ "gymClass" \notin DOMAIN classes_to_schedule

\* The dates the inventory of a class type has a day group for.
InventoryDates(class_type) ==
    { DateStr(inventory[class_type].json[g]._id) :
        g \in 1..Len(inventory[class_type].json) }

ResidualOf(class_type) ==
    IF class_type \in DOMAIN not_available_classes
    THEN { not_available_classes[class_type][i] :
             i \in 1..Len(not_available_classes[class_type]) }
    ELSE {}

InventoryFetched ==
    \A class_type \in DOMAIN candidates :
        ~RaisesForStatus(inventory[class_type].status_code)

\* C5: when the inventory was fetched, the matching call completes normally
\* also if a candidate's date is absent from the inventory of its class type;
\* that candidate is then in the residual list, and every candidate that has
\* a qualifying slot still gets it.
C5_AbsentDateGoesToResidual ==
    (match_pc # "start" /\ InventoryFetched) =>
        /\ MatchReturned
        /\ \A class_type \in DOMAIN candidates :
             \A c \in CandidatesOf(class_type) :
               /\ \A slot \in InventorySlots(class_type) :
                     (DateStr(slot.classDate) = c.date /\ SlotQualifies(slot, c))
                         => NormalisedClass(slot) \in ReturnedSlots(class_type)
               /\ (match_pc = "done" /\ c.date \notin InventoryDates(class_type))
                     => c \in ResidualOf(class_type)

\* C6: the residual list holds exactly the candidates for which no slot of
\* the same date and equal parsed time-of-day was matched.
C6_ResidualIsExactlyUnmatched ==
    match_pc = "done" =>
        \A class_type \in DOMAIN candidates :
          \A c \in CandidatesOf(class_type) :
            c \in ResidualOf(class_type)
              <=> ~ \E slot \in ReturnedSlots(class_type) :
                        /\ slot.classDate = c.date
                        /\ _parse_hour(slot.classTime) = _parse_hour(c.hour)

\* C7: the matcher never returns a slot whose attendance list holds an entry
\* of the requesting user with status 'cancelled'.
C7_NoCancelledSlotReturned ==
    MatchReturned =>
        \A class_type \in DOMAIN candidates :
          \A slot \in ReturnedSlots(class_type) :
            \A i \in 1..Len(slot.attendanceList) :
                slot.attendanceList[i] # Attendance(UserId, "cancelled")

\* ------------------------------------------------------------------------
\* Spec: BookingSystem.run, with enforce_auth, generate_candidates,
\* search_target_date, do_bookings and save_user_bookings
\*
\* Remote calls take no time; the clock advances in time.sleep only.  The
\* remote service answers each call with one of a few outcomes.
\* ------------------------------------------------------------------------

MaxAuthFailures == 2   \* most consecutive rounds in which every user is rejected
MaxDays == 3           \* no cycle starts on day MaxDays or later
RemoteAhead == 7       \* the remote never shows a date beyond today + RemoteAhead
MaxPollErrors == 1     \* most HTTP error answers to the polls of one search
MaxPolls == 5          \* most polls of one search that do not see the target date

AuthBackoff == 30          \* time.sleep(1800), minutes
SearchErrorBackoff == 10   \* time.sleep(600), minutes
ReauthAfter == 180         \* end - start >= 10800, minutes
TargetDays == 7            \* timedelta(days=7)
SleepOffset == 55          \* timedelta(minutes=55)
MinutesPerHour == 60

\* The users of the configuration file, in file order.
ConfiguredUsers == <<"u1", "u2">>

\* user_info["preferences"] of each configured user.
Preferences(user) ==
    IF user = "u1"
    THEN [ class_type \in {"gymClass"} |-> << DayPref("Monday", <<T9am, T9AM>>, <<>>) >> ]
    ELSE [ class_type \in {"gymClass"} |->
             << DayPref("Thursday", <<T9am>>, <<"ann", "bob">>) >> ]

SeqToSet(q) == { q[i] : i \in 1..Len(q) }

\* The first clocks of run(): a Monday (day 1) at 00:55 and at 23:20.
StartClocks == { MinutesPerDay + 55, MinutesPerDay + 1400 }

Init ==
    /\ ParseIdle
    /\ GenIdle
    /\ MatchIdle
    /\ pc = "run"
    /\ clock \in StartClocks
    /\ booking_users = ConfiguredUsers
    /\ auth_users = 0
    /\ auth_ret = "none"
    /\ auth_attempts = 0
    /\ auth_sleeps = 0
    /\ auth_entry = 0
    /\ target_last_date = 0
    /\ user_candidates = [ user \in SeqToSet(ConfiguredUsers) |-> <<>> ]
    /\ start = 0
    /\ secs = 0
    /\ poll_errors = 0
    /\ polls = 0
    /\ remote_last = [ class_type \in ClassTypes |-> DayOf(clock) + RemoteAhead - 1 ]
    /\ booked = <<>>
    /\ unmatched = {}
    /\ error = "none"

nonRunVars == <<parseVars, genVars, matchVars>>

\* An exception leaves run(): nothing in run() or its callees catches it,
\* except HTTPError in _auth_users and in search_target_date.
\* The frames of enforce_auth and search_target_date are unwound.
Terminates(exception) ==
    /\ pc' = "terminated"
    /\ error' = exception
    /\ auth_ret' = "none"
    /\ auth_users' = 0
    /\ auth_attempts' = 0
    /\ auth_sleeps' = 0
    /\ auth_entry' = 0
    /\ start' = 0
    /\ secs' = 0
    /\ poll_errors' = 0
    /\ polls' = 0

\* search_target_date returns; its frame is gone.
LeavesSearch ==
    /\ start' = 0
    /\ secs' = 0
    /\ poll_errors' = 0
    /\ polls' = 0

\* The call self.enforce_auth(); ret is the statement that follows it.
EntersEnforceAuth(ret, t) ==
    /\ pc' = "enforce_auth"
    /\ auth_ret' = ret
    /\ auth_attempts' = 0
    /\ auth_sleeps' = 0
    /\ auth_entry' = t

\* run, lines 153-158: a cycle starts, target_last_date = today + 7 days.
RunStart ==
    /\ pc = "run"
    /\ DayOf(clock) < MaxDays
    /\ target_last_date' = DayOf(clock + TargetDays * MinutesPerDay)
    /\ booked' = <<>>
    /\ unmatched' = {}
    /\ EntersEnforceAuth("generate_candidates", clock)
    /\ UNCHANGED <<clock, booking_users, auth_users, user_candidates, start, secs,
                   poll_errors, polls, remote_last, error, nonRunVars>>

\* ------------------------------------------------------------------------
\* BookingSystem._auth_users / enforce_auth
\* ------------------------------------------------------------------------

\* The answer to one user's auth()+me(): token and identity, or an HTTP
\* error status (raise_for_status).
AuthOutcomes == [ SeqToSet(booking_users) -> {"ok", "HTTPError"} ]

\* auth_users_list of a round without transport error.
_auth_users(outcome) == SelectSeq(booking_users, LAMBDA user : outcome[user] = "ok")

\* Mutation of EnforceAuthBreaks: the loop is left after every round.
EnforceAuthBreaks_Always(n_auth) == TRUE

\* enforce_auth leaves its loop (all users, or some users, authenticated).
EnforceAuthBreaks(n_auth) ==
    n_auth = Len(booking_users) \/ n_auth > 0

\* One round of enforce_auth after which the loop is left.  The BookingUser
\* objects that leave booking_users are unreachable, their candidates with
\* them.
AuthRoundReturns ==
    /\ pc = "enforce_auth"
    /\ \E outcome \in AuthOutcomes :
         LET auth_list == _auth_users(outcome)
         IN  /\ EnforceAuthBreaks(Len(auth_list))
             /\ auth_users' = Len(auth_list)
             /\ booking_users' = IF Len(auth_list) = Len(booking_users)
                                 THEN booking_users ELSE auth_list
             /\ user_candidates' = [ user \in SeqToSet(booking_users') |->
                                       user_candidates[user] ]
    /\ auth_attempts' = auth_attempts + 1
    /\ pc' = "enforce_auth_break"
    /\ UNCHANGED <<clock, auth_ret, auth_sleeps, auth_entry, target_last_date,
                   start, secs, poll_errors, polls, remote_last, booked, unmatched,
                   error, nonRunVars>>

\* enforce_auth returns to its caller; its frame is gone.
EnforceAuthReturns ==
    /\ pc = "enforce_auth_break"
    /\ pc' = auth_ret
    /\ auth_ret' = "none"
    /\ auth_users' = 0
    /\ auth_attempts' = 0
    /\ auth_sleeps' = 0
    /\ auth_entry' = 0
    /\ UNCHANGED <<clock, booking_users, target_last_date, user_candidates, start,
                   secs, poll_errors, polls, remote_last, booked, unmatched, error,
                   nonRunVars>>

\* One round of enforce_auth in which the loop is not left: sleep 30 minutes.
AuthRoundSleeps ==
    /\ pc = "enforce_auth"
    /\ auth_sleeps < MaxAuthFailures
    /\ \E outcome \in AuthOutcomes :
         LET auth_list == _auth_users(outcome)
         IN  /\ ~EnforceAuthBreaks(Len(auth_list))
             /\ auth_users' = Len(auth_list)
    /\ auth_attempts' = auth_attempts + 1
    /\ auth_sleeps' = auth_sleeps + 1
    /\ clock' = clock + AuthBackoff
    /\ UNCHANGED <<pc, booking_users, auth_ret, auth_entry, target_last_date,
                   user_candidates, start, secs, poll_errors, polls, remote_last,
                   booked, unmatched, error, nonRunVars>>

\* A transport error (requests Timeout / ConnectionError) in auth() or me()
\* of a user is not an HTTPError: it leaves _auth_users, enforce_auth and run.
AuthRoundRaises ==
    /\ pc = "enforce_auth"
    /\ Terminates("ConnectionError")
    /\ UNCHANGED <<clock, booking_users, target_last_date, user_candidates,
                   remote_last, booked, unmatched, nonRunVars>>

\* ------------------------------------------------------------------------
\* BookingSystem.generate_candidates
\* ------------------------------------------------------------------------

\* What api/users/<class>/upcoming answers to one user in the run loop.
RunUpcomingResponses ==
    { UpcomingResponse(200, <<>>), UpcomingResponse(500, <<>>) }

\* BookingUser.update_candidates: self.candidates = self.generate_candidates()
update_candidates(user, resp, t) == generate_candidates(Preferences(user), resp, t, t)

\* for user in self.booking_users: user.update_candidates(); then run enters
\* search_target_date, whose first statements set start.
RunGenerateCandidates ==
    /\ pc = "generate_candidates"
    /\ \E resp \in [ SeqToSet(booking_users) -> RunUpcomingResponses ] :
         /\ \A user \in SeqToSet(booking_users) : ~ScheduledClassesRaises(resp[user])
         /\ user_candidates' =
              [ user \in DOMAIN user_candidates |->
                  IF user \in SeqToSet(booking_users)
                  THEN update_candidates(user, resp[user], clock)
                  ELSE user_candidates[user] ]
    /\ start' = clock
    /\ poll_errors' = 0
    /\ polls' = 0
    /\ pc' = "search_target_date"
    /\ UNCHANGED <<clock, booking_users, auth_users, auth_ret, auth_attempts,
                   auth_sleeps, auth_entry, target_last_date, secs, remote_last,
                   booked, unmatched, error, nonRunVars>>

\* get_scheduled_classes raises HTTPError for some user: the users before it
\* have their candidates, the exception leaves run.
RunGenerateCandidatesRaises ==
    /\ pc = "generate_candidates"
    /\ \E k \in 1..Len(booking_users) :
         \E resp \in [ { booking_users[i] : i \in 1..(k - 1) } ->
                         { r \in RunUpcomingResponses : ~ScheduledClassesRaises(r) } ] :
           user_candidates' =
              [ user \in DOMAIN user_candidates |->
                  IF user \in DOMAIN resp
                  THEN update_candidates(user, resp[user], clock)
                  ELSE user_candidates[user] ]
    /\ Terminates("HTTPError")
    /\ UNCHANGED <<clock, booking_users, target_last_date, remote_last, booked,
                   unmatched, nonRunVars>>

\* ------------------------------------------------------------------------
\* BookingSystem.search_target_date
\* ------------------------------------------------------------------------

HourOf(t) == (t % MinutesPerDay) \div MinutesPerHour

\* last_dates_available: the last date of each class type's inventory.
LastDatesAvailable == { remote_last[class_type] : class_type \in ClassTypes }

\* datetime.time(hour=dt.hour + 1) raises ValueError when dt.hour is 23.
NextHourRaises(dt) == HourOf(dt) + 1 > 23

\* (combine(dt, time(hour=dt.hour + 1)) - dt).total_seconds(), in minutes
SecsToNextHour(dt) ==
    (DayOf(dt) * MinutesPerDay + (HourOf(dt) + 1) * MinutesPerHour) - dt

\* Mutation of ReauthDue: re-authentication after four hours.
ReauthDue_AfterFourHours(end) == end - start >= ReauthAfter + MinutesPerHour

\* end - start >= 10800
ReauthDue(end) == end - start >= ReauthAfter

\* The remote service opens one more day, either of the tennis courts or of
\* the gym and the pool (which share their calendar).
RemoteOpensDay ==
    /\ pc = "search_target_date"
    /\ \E opened \in { {"tennisClass"}, {"gymClass", "swimmingClass"} } :
         /\ \A class_type \in opened :
               remote_last[class_type] < DayOf(clock) + RemoteAhead
         /\ remote_last' = [ class_type \in ClassTypes |->
                               IF class_type \in opened
                               THEN remote_last[class_type] + 1
                               ELSE remote_last[class_type] ]
    /\ UNCHANGED <<pc, clock, booking_users, auth_users, auth_ret, auth_attempts,
                   auth_sleeps, auth_entry, target_last_date, user_candidates,
                   start, secs, poll_errors, polls, booked, unmatched, error,
                   nonRunVars>>

\* A poll that finds the target date: the wait ends, run calls do_bookings.
SearchFinds ==
    /\ pc = "search_target_date"
    /\ target_last_date \in LastDatesAvailable
    /\ pc' = "do_bookings"
    /\ LeavesSearch
    /\ UNCHANGED <<clock, booking_users, auth_users, auth_ret, auth_attempts,
                   auth_sleeps, auth_entry, target_last_date, user_candidates,
                   remote_last, booked, unmatched, error, nonRunVars>>

\* A poll that does not find it, less than 3 hours after start: sleep until
\* the next hour.
SearchWaits ==
    /\ pc = "search_target_date"
    /\ polls < MaxPolls
    /\ polls' = polls + 1
    /\ target_last_date \notin LastDatesAvailable
    /\ ~NextHourRaises(clock)
    /\ ~ReauthDue(clock)
    /\ secs' = SecsToNextHour(clock)
    /\ clock' = clock + secs'
    /\ UNCHANGED <<pc, booking_users, auth_users, auth_ret, auth_attempts,
                   auth_sleeps, auth_entry, target_last_date, user_candidates,
                   start, poll_errors, remote_last, booked, unmatched, error,
                   nonRunVars>>

\* A poll that does not find it, 3 hours or more after start: enforce_auth
\* first; start and the sleep follow in SearchSleeps.
SearchReauthenticates ==
    /\ pc = "search_target_date"
    /\ polls < MaxPolls
    /\ polls' = polls + 1
    /\ target_last_date \notin LastDatesAvailable
    /\ ~NextHourRaises(clock)
    /\ ReauthDue(clock)
    /\ secs' = SecsToNextHour(clock)
    /\ EntersEnforceAuth("search_sleep", clock)
    /\ UNCHANGED <<clock, booking_users, auth_users, target_last_date,
                   user_candidates, start, poll_errors, remote_last, booked,
                   unmatched, error, nonRunVars>>

\* Lines 81-82 after the re-authentication: start = time.time(); sleep(secs).
SearchSleeps ==
    /\ pc = "search_sleep"
    /\ start' = clock
    /\ clock' = clock + secs
    /\ pc' = "search_target_date"
    /\ UNCHANGED <<booking_users, auth_users, auth_ret, auth_attempts, auth_sleeps,
                   auth_entry, target_last_date, user_candidates, secs,
                   poll_errors, polls, remote_last, booked, unmatched, error,
                   nonRunVars>>

\* A poll that does not find it between 23:00 and midnight: ValueError.
SearchNextHourRaises ==
    /\ pc = "search_target_date"
    /\ target_last_date \notin LastDatesAvailable
    /\ NextHourRaises(clock)
    /\ Terminates("ValueError")
    /\ UNCHANGED <<clock, booking_users, target_last_date, user_candidates,
                   remote_last, booked, unmatched, nonRunVars>>

\* A poll answered with an HTTP error status: sleep 10 minutes, enforce_auth,
\* poll again.
SearchPollHTTPError ==
    /\ pc = "search_target_date"
    /\ poll_errors < MaxPollErrors
    /\ poll_errors' = poll_errors + 1
    /\ clock' = clock + SearchErrorBackoff
    /\ EntersEnforceAuth("search_target_date", clock + SearchErrorBackoff)
    /\ UNCHANGED <<booking_users, auth_users, target_last_date, user_candidates,
                   start, secs, polls, remote_last, booked, unmatched, error,
                   nonRunVars>>

\* A poll that fails with a transport error (Timeout, ConnectionError).
SearchPollRaises ==
    /\ pc = "search_target_date"
    /\ Terminates("ConnectionError")
    /\ UNCHANGED <<clock, booking_users, target_last_date, user_candidates,
                   remote_last, booked, unmatched, nonRunVars>>

\* ------------------------------------------------------------------------
\* BookingSystem.do_bookings
\* ------------------------------------------------------------------------

\* The slots of one day of the remote inventory, by the state of the remote.
RunSlots(kind, d) ==
    CASE kind = "open" -> << RealClass(<<d, 1>>, d, T9am, 10, 5, TRUE, <<>>) >>
      [] kind = "last" -> << RealClass(<<d, 1>>, d, T9am, 10, 9, TRUE, <<>>) >>
      [] kind = "full" -> << RealClass(<<d, 1>>, d, T9am, 10, 10, TRUE, <<>>) >>
      [] kind = "twin" -> << RealClass(<<d, 1>>, d, T9am, 10, 5, TRUE, <<>>),
                             RealClass(<<d, 2>>, d, T9AM, 10, 5, TRUE, <<>>) >>
      [] OTHER -> <<>>

RunInventoryKinds == {"open", "last", "full", "twin", "http500"}

\* The inventory of every class type: one day group per date from today to
\* the furthest date the remote shows for that class type.
RunInventory(kind) ==
    [ class_type \in ClassTypes |->
        [ status_code |-> IF kind = "http500" THEN 500 ELSE 200,
          json |-> [ i \in 1..(remote_last[class_type] - DayOf(clock) + 1) |->
                       DayGroup(DayOf(clock) + i - 1,
                                RunSlots(kind, DayOf(clock) + i - 1)) ] ] ]

\* The answers the inventory request can get during this do_bookings.
RunInventories == { RunInventory(kind) : kind \in RunInventoryKinds }

\* user.get_classes_to_schedule(candidate_class, candidates_info) as
\* do_bookings calls it: the matching of get_classes_to_schedule for one
\* class type; the matcher marks no candidate as cancelled.
MatchClass(candidate_class, candidates_info, resp) ==
    LET found == get_classes_to_schedule(
                     [ class_type \in {candidate_class} |-> candidates_info ], resp)
    IN  [ classes_to_schedule |->
              IF candidate_class \in DOMAIN found THEN found[candidate_class] ELSE <<>>,
          cancelled_classes |-> <<>> ]

MatchClassException(candidate_class, candidates_info, resp) ==
    MatchException([ class_type \in {candidate_class} |-> candidates_info ], resp, 1)

\* The class types of a candidates dict in iteration order.
ClassKeys(cands) == SelectSeq(ClassOrder, LAMBDA class_type : class_type \in DOMAIN cands)

\* len_candidates = sum([len(x) for _, x in candidates.items()])
RECURSIVE LenCandidates(_, _)
LenCandidates(cands, keys) ==
    IF keys = <<>> THEN 0
    ELSE Len(cands[Head(keys)]) + LenCandidates(cands, Tail(keys))

\* The (user, class type) pairs do_bookings visits, in order.
RECURSIVE WorkItems(_)
WorkItems(users) ==
    IF users = <<>> THEN <<>>
    ELSE LET user == Head(users)
             cands == user_candidates[user]
             keys == ClassKeys(cands)
         IN  (IF LenCandidates(cands, keys) = 0 THEN <<>>
              ELSE [ i \in 1..Len(keys) |-> << user, keys[i] >> ])
             \o WorkItems(Tail(users))

\* The book_class calls of one (user, class type): one per slot to schedule.
BookCallsOf(user, candidate_class, resp) ==
    LET matched == MatchClass(candidate_class, user_candidates[user][candidate_class], resp)
        candidates_info ==
            SelectSeq(user_candidates[user][candidate_class],
                      LAMBDA c : \A i \in 1..Len(matched.cancelled_classes) :
                                    matched.cancelled_classes[i] # c)
        to_schedule == matched.classes_to_schedule
    IN  IF Len(candidates_info) = 0 \/ Len(to_schedule) = 0 THEN <<>>
        ELSE [ i \in 1..Len(to_schedule) |-> << user, to_schedule[i]._id >> ]

\* The book_class calls do_bookings makes until the matcher raises (exc), or
\* all of them (exc = "none").
RECURSIVE BookingPlan(_, _)
BookingPlan(items, resp) ==
    IF items = <<>> THEN [ calls |-> <<>>, exc |-> "none" ]
    ELSE LET user == Head(items)[1]
             candidate_class == Head(items)[2]
             exception == MatchClassException(candidate_class,
                              user_candidates[user][candidate_class], resp)
         IN  IF exception # "none" THEN [ calls |-> <<>>, exc |-> exception ]
             ELSE LET rest == BookingPlan(Tail(items), resp)
                  IN  [ calls |-> BookCallsOf(user, candidate_class, resp) \o rest.calls,
                        exc |-> rest.exc ]

\* The candidates of a list for which no slot of their date and parsed
\* time-of-day is among the slots to schedule.
WithoutSlot(candidates_info, to_schedule) ==
    { candidates_info[j] :
        j \in { i \in 1..Len(candidates_info) :
                  ~ \E k \in 1..Len(to_schedule) :
                      /\ to_schedule[k].classDate = candidates_info[i].date
                      /\ _parse_hour(to_schedule[k].classTime)
                           = _parse_hour(candidates_info[i].hour) } }

\* The candidates of the active users left without a slot by do_bookings.
Unmatched(resp) ==
    UNION { UNION { { << user, class_type, c >> :
                        c \in WithoutSlot(user_candidates[user][class_type],
                                 MatchClass(class_type, user_candidates[user][class_type],
                                            resp).classes_to_schedule) } :
                    class_type \in DOMAIN user_candidates[user] } :
            user \in SeqToSet(booking_users) }

\* do_bookings returns: every slot to schedule of every user was booked.
DoBookings ==
    /\ pc = "do_bookings"
    /\ \E resp \in RunInventories :
         \E plan \in { BookingPlan(WorkItems(booking_users), resp) } :
             /\ plan.exc = "none"
             /\ booked' = plan.calls
             /\ unmatched' = Unmatched(resp)
    /\ pc' = "save_user_bookings"
    /\ UNCHANGED <<clock, booking_users, auth_users, auth_ret, auth_attempts,
                   auth_sleeps, auth_entry, target_last_date, user_candidates,
                   start, secs, poll_errors, polls, remote_last, error, nonRunVars>>

\* The matcher raises (HTTPError of the inventory fetch, KeyError of a date
\* without day group): the exception leaves do_bookings and run.
DoBookingsMatchRaises ==
    /\ pc = "do_bookings"
    /\ \E resp \in RunInventories :
         \E plan \in { BookingPlan(WorkItems(booking_users), resp) } :
             /\ plan.exc # "none"
             /\ booked' = plan.calls
             /\ Terminates(plan.exc)
    /\ UNCHANGED <<clock, booking_users, target_last_date, user_candidates,
                   remote_last, unmatched, nonRunVars>>

\* The k-th book_class call raises (HTTP error status or transport error):
\* the exception leaves do_bookings and run.
DoBookingsBookRaises ==
    /\ pc = "do_bookings"
    /\ \E resp \in RunInventories :
         \E plan \in { BookingPlan(WorkItems(booking_users), resp) } :
             \E k \in 1..Len(plan.calls) :
                 booked' = SubSeq(plan.calls, 1, k)
    /\ \E exception \in {"HTTPError", "ConnectionError"} : Terminates(exception)
    /\ UNCHANGED <<clock, booking_users, target_last_date, user_candidates,
                   remote_last, unmatched, nonRunVars>>

\* ------------------------------------------------------------------------
\* BookingSystem.save_user_bookings and the end of the cycle
\* ------------------------------------------------------------------------

\* The remote calls of do_bookings and save_user_bookings, in minutes.
CycleWorkMinutes == 1

\* save_user_bookings returns.
SaveUserBookings ==
    /\ pc = "save_user_bookings"
    /\ clock' = clock + CycleWorkMinutes
    /\ pc' = "sleep"
    /\ UNCHANGED <<booking_users, auth_users, auth_ret, auth_attempts, auth_sleeps,
                   auth_entry, target_last_date, user_candidates, start, secs,
                   poll_errors, polls, remote_last, booked, unmatched, error,
                   nonRunVars>>

\* get_scheduled_classes raises HTTPError: the exception leaves
\* save_user_bookings and run.
SaveUserBookingsRaises ==
    /\ pc = "save_user_bookings"
    /\ Terminates("HTTPError")
    /\ UNCHANGED <<clock, booking_users, target_last_date, user_candidates,
                   remote_last, booked, unmatched, nonRunVars>>

\* timedelta.seconds of (tomorrow 00:00 + 55 min - dt): the days of the
\* difference are dropped.
SecondsUntilTomorrow(dt) ==
    ((DayOf(dt) + 1) * MinutesPerDay + SleepOffset - dt) % MinutesPerDay

\* run, lines 164-170: time.sleep(seconds), then the next cycle.
EndOfCycleSleep ==
    /\ pc = "sleep"
    /\ clock' = clock + SecondsUntilTomorrow(clock)
    /\ pc' = "run"
    /\ UNCHANGED <<booking_users, auth_users, auth_ret, auth_attempts, auth_sleeps,
                   auth_entry, target_last_date, user_candidates, start, secs,
                   poll_errors, polls, remote_last, booked, unmatched, error,
                   nonRunVars>>

Next ==
    \/ RunStart
    \/ AuthRoundReturns
    \/ EnforceAuthReturns
    \/ AuthRoundSleeps
    \/ AuthRoundRaises
    \/ RunGenerateCandidates
    \/ RunGenerateCandidatesRaises
    \/ RemoteOpensDay
    \/ SearchFinds
    \/ SearchWaits
    \/ SearchReauthenticates
    \/ SearchSleeps
    \/ SearchNextHourRaises
    \/ SearchPollHTTPError
    \/ SearchPollRaises
    \/ DoBookings
    \/ DoBookingsMatchRaises
    \/ DoBookingsBookRaises
    \/ SaveUserBookings
    \/ SaveUserBookingsRaises
    \/ EndOfCycleSleep

Spec == Init /\ [][Next]_vars

\* The day on which the current cycle started.
CycleDay == target_last_date - TargetDays

\* C8: the cycle goes to its end-of-cycle sleep only when no candidate is
\* left unmatched or the per-cycle deadline (the start of the next operating
\* day) has been reached; until then unmatched candidates are polled again.
C8_SleepsOnlyWithoutResidual ==
    pc = "sleep" =>
        \/ unmatched = {}
        \/ clock >= (CycleDay + 1) * MinutesPerDay

\* C9: no failure of a stage of the cycle ends run(): every exception is
\* caught at the outermost level of run() and the cycle restarts.
C9_RunNeverTerminates == pc # "terminated"

\* C10: while every user is rejected with an HTTP error status, enforce_auth
\* stays in its loop and sleeps 30 minutes after each round; it leaves the
\* loop only with a user authenticated, after exactly one 30-minute sleep
\* between each pair of consecutive rounds.
C10_AuthBackoffUntilSuccess ==
    /\ pc = "enforce_auth" =>
          /\ auth_sleeps = auth_attempts
          /\ auth_attempts > 0 => auth_users = 0
          /\ clock = auth_entry + AuthBackoff * auth_sleeps
    /\ pc = "enforce_auth_break" =>
          /\ auth_users > 0
          /\ Len(booking_users) = auth_users
          /\ auth_sleeps = auth_attempts - 1
          /\ clock = auth_entry + AuthBackoff * auth_sleeps

\* The scenario: rejected twice, every user authenticated in the third round.
C10_Witness ==
    /\ pc = "enforce_auth_break"
    /\ auth_attempts = 3
    /\ auth_sleeps = 2
    /\ booking_users = ConfiguredUsers

\* C11: a transport error (timeout, connection failure) in a user's auth()
\* or me() does not escape enforce_auth: every step taken inside enforce_auth
\* stays in its loop or leaves it with a user authenticated.
C11_TransportErrorStaysInEnforceAuth ==
    [][ pc = "enforce_auth" => pc' \in {"enforce_auth", "enforce_auth_break"} ]_vars

\* C12: a user dropped by a partial authentication is dropped for the rest
\* of that cycle only: enforce_auth returns at once with exactly the users
\* that authenticated, and the authentication step with which run() opens a
\* cycle attempts every configured user.
C12_DroppedForOneCycleOnly ==
    /\ pc = "enforce_auth_break" =>
          /\ Len(booking_users) = auth_users
          /\ clock = auth_entry + AuthBackoff * (auth_attempts - 1)
    /\ (pc = "enforce_auth" /\ auth_ret = "generate_candidates") =>
          booking_users = ConfiguredUsers

\* C13: in every cycle candidate generation comes after the horizon wait:
\* the step that generates the candidates is followed by matching and
\* booking, and matching and booking are entered from that step only.
C13_GenerationAfterHorizonWait ==
    [][ /\ pc = "generate_candidates" => pc' \in {"do_bookings", "terminated"}
        /\ pc' = "do_bookings" => pc = "generate_candidates" ]_vars

\* C14: within one cycle no two book_class calls of a user carry the same
\* slot identifier, whatever the preferences and the inventory (two
\* candidates of the same date and parsed time-of-day included).
C14_NoSlotBookedTwice ==
    \A i, j \in 1..Len(booked) : booked[i] = booked[j] => i = j

\* C15: the end-of-cycle sleep ends at 00:55 of the calendar day after the
\* one on which the cycle finished, whatever the time 'now' of that day.
C15_SleepsUntilNextDay ==
    [][ (pc = "sleep" /\ pc' = "run") =>
            clock' = (DayOf(clock) + 1) * MinutesPerDay + SleepOffset ]_vars

\* C16: the horizon wait ends only with the target date as the furthest
\* date of some class type, and a successful poll never leaves the wait going
\* when the furthest visible date is the target date or a later one.
C16_WaitEndsWhenTargetReached ==
    [][ /\ (pc = "search_target_date" /\ pc' = "do_bookings") =>
               target_last_date \in LastDatesAvailable
        /\ (pc = "search_target_date" /\ polls' = polls + 1) =>
               \A class_type \in ClassTypes :
                   remote_last[class_type] < target_last_date ]_vars

\* C17: at every hour 0..23 a poll that does not see the target date
\* computes its delay without failing; the delay is positive and at most one
\* hour, and the loop polls again after it.
C17_RepollDelayAtEveryHour ==
    [][ pc = "search_target_date" =>
            /\ error' # "ValueError"
            /\ polls' = polls + 1 => (secs' > 0 /\ secs' <= MinutesPerHour) ]_vars

\* C18: a poll that does not see the target date and reaches the elapsed-time
\* test runs enforce_auth before the next poll exactly when 3 hours or more
\* have passed since start; start is set to the current time when
\* enforce_auth has returned, before the sleep; without 3 hours elapsed and
\* without a failed poll the wait does not enter enforce_auth.
C18_ReauthAfterThreeHours ==
    [][ /\ (pc = "search_target_date" /\ polls' = polls + 1) =>
               IF clock - start >= ReauthAfter
               THEN pc' = "enforce_auth" /\ auth_ret' = "search_sleep" /\ clock' = clock
               ELSE pc' = "search_target_date" /\ start' = start
        /\ pc = "search_sleep" =>
               (start' = clock /\ pc' = "search_target_date" /\ clock' = clock + secs)
        /\ (pc = "search_target_date" /\ pc' = "enforce_auth") =>
               (clock - start >= ReauthAfter \/ poll_errors' = poll_errors + 1) ]_vars

\* The forced re-authentication has returned more than 3 hours after start,
\* with no poll failed; start is about to be reset.
C18_Witness ==
    /\ pc = "search_sleep"
    /\ poll_errors = 0
    /\ clock - start >= ReauthAfter
    /\ secs > 0

\* The instant of a candidate: its date at midnight plus its parsed
\* time-of-day.
CandidateInstant(c) == c.date * MinutesPerDay + _parse_hour(c.hour)

\* The now() read by _filter_days_to_schedule.
FilterNow == now + elapsed

\* C19: every generated candidate's instant is strictly later than the
\* 'now' of the filter; and a preferred hour of today's weekday whose instant
\* on today's date is still ahead, with no class scheduled on that date,
\* gives a candidate dated today.
C19_CandidatesStrictlyInFuture ==
    gen_pc = "done" =>
        /\ \A c \in GeneratedCandidates : CandidateInstant(c) > FilterNow
        /\ \A class_type \in DOMAIN user_preferences :
             \A p \in 1..Len(user_preferences[class_type]) :
               LET day_p == user_preferences[class_type][p]
                   today == DayOf(now)
               IN  \A h \in 1..Len(day_p.hours) :
                     LET c == Candidate(today, day_p.weekday, day_p.hours[h],
                                        day_p.friends)
                     IN  ( /\ day_p.weekday = Weekday(today)
                           /\ CandidateInstant(c) > FilterNow
                           /\ \A j \in 1..Len(upcoming[class_type].json) :
                                 DateStr(upcoming[class_type].json[j].class.classDate)
                                     # today )
                         => /\ class_type \in DOMAIN candidates
                            /\ \E i \in 1..Len(candidates[class_type]) :
                                  candidates[class_type][i] = c

\* At 9:00 sharp on a Monday, of the preferred hours "9:00 AM" and
\* "12:30 pm" of Mondays, today's 9:00 was dropped and today's 12:30 kept.
C19_Witness ==
    /\ gen_pc = "done"
    /\ Weekday(DayOf(now)) = "Monday"
    /\ CandidateInstant(Candidate(DayOf(now), "Monday", T9AM, <<>>)) = FilterNow
    /\ DOMAIN user_preferences = {"gymClass"}
    /\ user_preferences["gymClass"] = << DayPref("Monday", <<T9AM, T1230pm>>, <<>>) >>
    /\ Candidate(DayOf(now), "Monday", T9AM, <<>>) \notin GeneratedCandidates
    /\ Candidate(DayOf(now), "Monday", T1230pm, <<>>) \in GeneratedCandidates

\* The candidates of a class type that have a qualifying slot, in the order
\* they were supplied.
MatchedCandidates(class_type) ==
    SelectSeq(candidates[class_type],
              LAMBDA c : \E slot \in InventorySlots(class_type) :
                            DateStr(slot.classDate) = c.date /\ SlotQualifies(slot, c))

\* C20: for every class type the matcher returns at most one slot per
\* candidate, in candidate order: the k-th returned slot has the date and the
\* parsed time-of-day of the k-th candidate that has a qualifying slot, and
\* the list is not longer than the candidate list.
C20_OneSlotPerCandidateInOrder ==
    MatchReturned =>
        \A class_type \in DOMAIN candidates :
            LET returned == IF class_type \in DOMAIN classes_to_schedule
                            THEN classes_to_schedule[class_type] ELSE <<>>
                matched  == MatchedCandidates(class_type)
            IN  /\ Len(returned) <= Len(candidates[class_type])
                /\ Len(returned) = Len(matched)
                /\ \A k \in 1..Len(returned) :
                      /\ returned[k].classDate = matched[k].date
                      /\ _parse_hour(returned[k].classTime) = _parse_hour(matched[k].hour)

====
